---- MODULE Spec2Model ----
(***************************************************************************)
(* Person Picker (picker.py): the Person/Model classes, their JSON         *)
(* (de)serialisation and the weighted draw.                                *)
(*                                                                         *)
(* Real numbers (factors, weights, the random draw) are fixed-point        *)
(* integers with One units per 1.0, so 0.5 is 5 and 0.2 is 2.              *)
(* A Python dict is a record whose DOMAIN is its key set; a JSON value     *)
(* carries its Python type as the single field of a wrapper record         *)
(* ([dict |-> ..], [list |-> ..], [other |-> ..]) wherever the code tests  *)
(* isinstance.  Model._persons, an insertion-ordered dict, is a sequence   *)
(* of Person records with pairwise distinct names.                         *)
(***************************************************************************)
EXTENDS Integers, Sequences, FiniteSets, TLC

\* ---------------------------------------------------------------- bounds
\* cap of both counters (the code's counters are unbounded ints)
MaxCount == 2

\* ------------------------------------------------------------- constants
\* 1.0, and the defaults 0.5 and 0.2 of from_json, in fixed point
One == 10
DefaultUnproposedFactor == 5
DefaultRejectedFactor == 2

Names == {"A", "B"}
None == "<None>"

\* the Model object, the last Model operation and the Model before it
VARIABLES model, op, prev
\* the process: its state, its position, its locals, its error output, and
\* the directory it runs in
VARIABLES status, pc, proposed_name, answer, i, tmp_path, stderr, files
\* the Model as read_model returned it at the start of the session
VARIABLES loaded

modelvars == <<model, op, prev>>
mainvars == <<status, pc, proposed_name, answer, i, tmp_path, stderr, files, loaded>>
vars == <<model, op, prev, status, pc, proposed_name, answer, i, tmp_path, stderr, files,
          loaded>>

\* ------------------------------------------------------------ builtins
Max(a, b) == IF a >= b THEN a ELSE b

\* dict.get(key, default)
Get(d, key, default) == IF key \in DOMAIN d THEN d[key] ELSE default

\* isinstance(v, dict) / isinstance(v, list)
IsDict(v) == "dict" \in DOMAIN v
IsList(v) == "list" \in DOMAIN v

\* ------------------------------------------------------------ class Person
\* Person.__init__ without the max(0, ..) clamps
Person_Unclamped(name, times_unproposed, times_rejected) ==
    [name |-> name,
     times_unproposed |-> times_unproposed,
     times_rejected |-> times_rejected,
     active |-> TRUE]

Person(name, times_unproposed, times_rejected) ==
    [name |-> name,
     times_unproposed |-> Max(0, times_unproposed),
     times_rejected |-> Max(0, times_rejected),
     active |-> TRUE]

increase_times_unproposed(p) ==
    [p EXCEPT !.times_unproposed = p.times_unproposed + 1]

increase_times_rejected(p) ==
    [p EXCEPT !.times_rejected = p.times_rejected + 1]

\* reset that forgets times_rejected
reset_UnproposedOnly(p) == [p EXCEPT !.times_unproposed = 0]

reset(p) == [p EXCEPT !.times_unproposed = 0, !.times_rejected = 0]

\* deactivate that flips the flag instead of clearing it
deactivate_Toggle(p) == [p EXCEPT !.active = ~p.active]

deactivate(p) == [p EXCEPT !.active = FALSE]

Person_to_json(p) ==
    [dict |-> [name |-> p.name,
               timesUnproposed |-> p.times_unproposed,
               timesRejected |-> p.times_rejected]]

\* ------------------------------------------------------------ class Model
\* position of key `name` in the insertion-ordered dict, 0 when absent
IndexOf(persons, name) ==
    IF \E k \in 1..Len(persons) : persons[k].name = name
    THEN CHOOSE k \in 1..Len(persons) : persons[k].name = name
    ELSE 0

\* self._persons[name] = person: an existing key keeps its position
SetItem(persons, name, person) ==
    IF IndexOf(persons, name) = 0
    THEN Append(persons, person)
    ELSE [persons EXCEPT ![IndexOf(persons, name)] = person]

Model(unproposed_factor, rejected_factor) ==
    [persons |-> <<>>,
     unproposed_factor |-> Max(0, unproposed_factor),
     rejected_factor |-> Max(0, rejected_factor)]

add_person(m, name, times_unproposed, times_rejected) ==
    [m EXCEPT !.persons =
        SetItem(m.persons, name, Person(name, times_unproposed, times_rejected))]

\* reject_name that skips inactive persons
reject_name_ActiveOnly(m, name) ==
    LET k == IndexOf(m.persons, name) IN
    IF k # 0 /\ m.persons[k].active
    THEN [m EXCEPT !.persons[k] = increase_times_rejected(m.persons[k])]
    ELSE m

reject_name(m, name) ==
    LET k == IndexOf(m.persons, name) IN
    IF k # 0
    THEN [m EXCEPT !.persons[k] = increase_times_rejected(m.persons[k])]
    ELSE m

pick_name(m, name) ==
    LET k == IndexOf(m.persons, name) IN
    IF k # 0
    THEN [m EXCEPT !.persons[k] = reset(m.persons[k])]
    ELSE m

\* deactivate_name that deletes the entry instead of flagging it
deactivate_name_Delete(m, name) ==
    [m EXCEPT !.persons = SelectSeq(m.persons, LAMBDA p : p.name # name)]

deactivate_name(m, name) ==
    LET k == IndexOf(m.persons, name) IN
    IF k # 0
    THEN [m EXCEPT !.persons[k] = deactivate(m.persons[k])]
    ELSE m

get_active_names(m) ==
    {m.persons[k].name : k \in {j \in 1..Len(m.persons) : m.persons[j].active}}

\* the first loop of get_random_name without the 1.0 every weight starts from
RECURSIVE BuildWeights_NoBase(_, _, _, _)
BuildWeights_NoBase(m, k, maximum, weights) ==
    IF k > Len(m.persons)
    THEN [maximum |-> maximum, weights |-> weights]
    ELSE LET person == m.persons[k] IN
         IF person.active
         THEN BuildWeights_NoBase(m, k + 1,
                  maximum + person.times_unproposed * m.unproposed_factor
                          + person.times_rejected * m.rejected_factor,
                  Append(weights, [offset |-> maximum, name |-> person.name]))
         ELSE BuildWeights_NoBase(m, k + 1, maximum, weights)

\* the first loop of get_random_name that takes inactive persons too
RECURSIVE BuildWeights_NoActiveTest(_, _, _, _)
BuildWeights_NoActiveTest(m, k, maximum, weights) ==
    IF k > Len(m.persons)
    THEN [maximum |-> maximum, weights |-> weights]
    ELSE LET person == m.persons[k] IN
         BuildWeights_NoActiveTest(m, k + 1,
             maximum + One + person.times_unproposed * m.unproposed_factor
                     + person.times_rejected * m.rejected_factor,
             Append(weights, [offset |-> maximum, name |-> person.name]))

\* the first loop of get_random_name over persons[k..]: the list `weights`
\* of (offset, name) pairs and the running sum `maximum`
RECURSIVE BuildWeights(_, _, _, _)
BuildWeights(m, k, maximum, weights) ==
    IF k > Len(m.persons)
    THEN [maximum |-> maximum, weights |-> weights]
    ELSE LET person == m.persons[k] IN
         IF person.active
         THEN BuildWeights(m, k + 1,
                  maximum + One + person.times_unproposed * m.unproposed_factor
                          + person.times_rejected * m.rejected_factor,
                  Append(weights, [offset |-> maximum, name |-> person.name]))
         ELSE BuildWeights(m, k + 1, maximum, weights)

\* the second loop of get_random_name over weights[k..]
RECURSIVE ScanWeights(_, _, _, _)
ScanWeights(weights, k, choice, name) ==
    IF k > Len(weights)
    THEN name
    ELSE ScanWeights(weights, k + 1, choice,
             IF weights[k].offset < choice THEN weights[k].name ELSE name)

\* the values random.random() * maximum can take: random() is in [0, 1)
Choices(maximum) == IF maximum = 0 THEN {0} ELSE 0..(maximum - 1)

\* get_random_name that falls back to the first person when the scan
\* selects nobody
get_random_name_FallbackFirst(m, choice) ==
    LET b == BuildWeights(m, 1, 0, <<>>)
        found == ScanWeights(b.weights, 1, choice, None)
    IN IF found = None /\ Len(m.persons) > 0 THEN m.persons[1].name ELSE found

get_random_name(m, choice) ==
    LET b == BuildWeights(m, 1, 0, <<>>) IN
    ScanWeights(b.weights, 1, choice, None)

\* the loop of propose_name without the `person.active` test
UnproposeOthers_NoActiveTest(persons, name) ==
    [k \in 1..Len(persons) |->
        IF persons[k].name # name
        THEN increase_times_unproposed(persons[k])
        ELSE persons[k]]

\* the loop of propose_name over persons
UnproposeOthers(persons, name) ==
    [k \in 1..Len(persons) |->
        IF persons[k].active /\ persons[k].name # name
        THEN increase_times_unproposed(persons[k])
        ELSE persons[k]]

propose_name(m, choice) ==
    LET name == get_random_name(m, choice) IN
    [name |-> name,
     model |-> [m EXCEPT !.persons = UnproposeOthers(m.persons, name)]]

\* to_json that leaves deactivated persons out of the document
Model_to_json_ActiveOnly(m) ==
    LET act == SelectSeq(m.persons, LAMBDA p : p.active) IN
    [dict |-> [unproposedFactor |-> m.unproposed_factor,
               rejectedFactor |-> m.rejected_factor,
               persons |-> [list |-> [k \in 1..Len(act) |->
                                         Person_to_json(act[k])]]]]

Model_to_json(m) ==
    [dict |-> [unproposedFactor |-> m.unproposed_factor,
               rejectedFactor |-> m.rejected_factor,
               persons |-> [list |-> [k \in 1..Len(m.persons) |->
                                         Person_to_json(m.persons[k])]]]]

\* the loop of from_json that skips a bad record instead of raising
RECURSIVE AddPersons_SkipBad(_, _, _)
AddPersons_SkipBad(m, persons, k) ==
    IF k > Len(persons)
    THEN [ok |-> TRUE, error |-> "", model |-> m]
    ELSE LET person == persons[k] IN
         IF ~IsDict(person)
         THEN AddPersons_SkipBad(m, persons, k + 1)
         ELSE IF "name" \notin DOMAIN person.dict
         THEN AddPersons_SkipBad(m, persons, k + 1)
         ELSE AddPersons_SkipBad(add_person(m, person.dict.name,
                                    Get(person.dict, "timesUnproposed", 0),
                                    Get(person.dict, "timesRejected", 0)),
                         persons, k + 1)

\* the loop of from_json over persons[k..]; stops at the first bad record
RECURSIVE AddPersons(_, _, _)
AddPersons(m, persons, k) ==
    IF k > Len(persons)
    THEN [ok |-> TRUE, error |-> "", model |-> m]
    ELSE LET person == persons[k] IN
         IF ~IsDict(person)
         THEN [ok |-> FALSE, error |-> "Person must be a JSON object!", model |-> m]
         ELSE IF "name" \notin DOMAIN person.dict
         THEN [ok |-> FALSE, error |-> "Person must have a name!", model |-> m]
         ELSE AddPersons(add_person(m, person.dict.name,
                                    Get(person.dict, "timesUnproposed", 0),
                                    Get(person.dict, "timesRejected", 0)),
                         persons, k + 1)

\* ok = FALSE stands for the raised ValueError, and then no Model is returned
from_json(json_obj) ==
    IF ~IsDict(json_obj)
    THEN [ok |-> FALSE, error |-> "Settings must be a JSON object!"]
    ELSE LET m == Model(Get(json_obj.dict, "unproposedFactor", DefaultUnproposedFactor),
                        Get(json_obj.dict, "rejectedFactor", DefaultRejectedFactor))
             persons == Get(json_obj.dict, "persons", [list |-> <<>>])
         IN IF ~IsList(persons)
            THEN [ok |-> FALSE, error |-> "Person list must be a JSON array!"]
            ELSE LET r == AddPersons(m, persons.list, 1) IN
                 IF r.ok THEN [ok |-> TRUE, model |-> r.model]
                 ELSE [ok |-> FALSE, error |-> r.error]

\* the sum of the active weights, as get_random_name computes it
maximum_of(m) == BuildWeights(m, 1, 0, <<>>).maximum

\* ------------------------------------------------------ files and json
\* sys.argv[1], and f"{path}_{i}"
Path == "settings.json"
TmpPath(path, k) == path \o "_" \o ToString(k)

FileNames == {Path, TmpPath(Path, 0), TmpPath(Path, 1)}

EmptyDict == [k \in {} |-> 0]

\* json.dump writes a document chunk by chunk: an opening chunk, one chunk
\* per person-record, a closing chunk; any other value is one chunk
NumChunks(v) ==
    IF IsDict(v)
    THEN 2 + (IF "persons" \in DOMAIN v.dict /\ IsList(v.dict.persons)
              THEN Len(v.dict.persons.list) ELSE 0)
    ELSE 1

\* a file: the first `written` chunks of the text of json value `doc`
NoFile == [exists |-> FALSE, doc |-> [dict |-> EmptyDict], written |-> 0]

os_path_exists(fs, p) == fs[p].exists

\* open(p, "w"): creates or truncates; doc is what json.dump is given next
open_w(fs, p, doc) == [fs EXCEPT ![p] = [exists |-> TRUE, doc |-> doc, written |-> 0]]

\* one fp.write(chunk) of json.dump
write_chunk(fs, p) == [fs EXCEPT ![p].written = @ + 1]

\* os.replace(src, dst): atomic rename over dst
os_replace(fs, src, dst) ==
    IF src = dst THEN fs ELSE [fs EXCEPT ![dst] = fs[src], ![src] = NoFile]

\* the text of a file is a whole json text
IsComplete(file) == file.exists /\ file.written = NumChunks(file.doc)

\* ------------------------------------------------- the Model, called freely
\* documents a Model may be built from
InitDocuments ==
    { [dict |-> EmptyDict],
      [dict |-> [unproposedFactor |-> -5,
                 rejectedFactor |-> -2,
                 persons |-> [list |-> <<
                     [dict |-> [name |-> "A", timesUnproposed |-> -1,
                                timesRejected |-> 1]],
                     [dict |-> [name |-> "B"]] >>]]],
      [dict |-> [persons |-> [list |-> <<
                     [dict |-> [name |-> "A", timesRejected |-> 1]],
                     [dict |-> [name |-> "B", timesUnproposed |-> 1]] >>]]] }

\* counter arguments handed to add_person
AddCounts == {-1, 0, MaxCount}

NoOp == [kind |-> "init", name |-> None, times_unproposed |-> 0,
         times_rejected |-> 0, choice |-> 0, result |-> None]

WithinBounds(m) ==
    \A k \in 1..Len(m.persons) :
        /\ m.persons[k].times_unproposed <= MaxCount
        /\ m.persons[k].times_rejected <= MaxCount

Init ==
    \E doc \in InitDocuments :
        /\ from_json(doc).ok
        /\ model = from_json(doc).model
        /\ prev = from_json(doc).model
        /\ op = [NoOp EXCEPT !.kind = "from_json"]
        /\ status = "library"
        /\ pc = ""
        /\ proposed_name = None
        /\ answer = ""
        /\ i = 0
        /\ tmp_path = ""
        /\ stderr = ""
        /\ files = [f \in FileNames |-> NoFile]
        /\ loaded = model

AddPerson ==
    \E n \in Names, tu \in AddCounts, tr \in AddCounts :
        /\ model' = add_person(model, n, tu, tr)
        /\ prev' = model
        /\ op' = [NoOp EXCEPT !.kind = "add", !.name = n,
                              !.times_unproposed = tu, !.times_rejected = tr]
        /\ UNCHANGED mainvars

RejectName ==
    \E n \in Names :
        /\ WithinBounds(reject_name(model, n))
        /\ model' = reject_name(model, n)
        /\ prev' = model
        /\ op' = [NoOp EXCEPT !.kind = "reject", !.name = n]
        /\ UNCHANGED mainvars

PickName ==
    \E n \in Names :
        /\ model' = pick_name(model, n)
        /\ prev' = model
        /\ op' = [NoOp EXCEPT !.kind = "pick", !.name = n]
        /\ UNCHANGED mainvars

DeactivateName ==
    \E n \in Names :
        /\ model' = deactivate_name(model, n)
        /\ prev' = model
        /\ op' = [NoOp EXCEPT !.kind = "deactivate", !.name = n]
        /\ UNCHANGED mainvars

ProposeName ==
    \E choice \in Choices(maximum_of(model)) :
        LET r == propose_name(model, choice) IN
        /\ WithinBounds(r.model)
        /\ model' = r.model
        /\ prev' = model
        /\ op' = [NoOp EXCEPT !.kind = "propose", !.choice = choice,
                              !.result = r.name]
        /\ UNCHANGED mainvars

Next ==
    \/ AddPerson
    \/ RejectName
    \/ PickName
    \/ DeactivateName
    \/ ProposeName

Spec == Init /\ [][Next]_vars

\* ------------------------------------------------------------ the program
\* documents from_json rejects
MalformedDocuments ==
    { [other |-> 0],
      [dict |-> [persons |-> [other |-> 0]]],
      [dict |-> [persons |-> [list |-> <<
                     [dict |-> [name |-> "A"]], [other |-> 0] >>]]],
      [dict |-> [persons |-> [list |-> <<
                     [dict |-> [name |-> "A"]],
                     [dict |-> [timesRejected |-> 1]] >>]]] }

WholeFile(doc) == [exists |-> TRUE, doc |-> doc, written |-> NumChunks(doc)]

\* what the settings file may be when the program is first run: missing, a
\* document, or a text cut short
InitTargets ==
    {NoFile}
    \cup {WholeFile(doc) : doc \in InitDocuments \cup MalformedDocuments}
    \cup {[exists |-> TRUE, doc |-> doc, written |-> 1] : doc \in InitDocuments}

NoModel == [persons |-> <<>>, unproposed_factor |-> 0, rejected_factor |-> 0]

\* sorted(active_names): the names in string order
SortedNames == <<"A", "B">>
sorted(S) == SelectSeq(SortedNames, LAMBDA n : n \in S)

\* int(number) for the strings typed at the prompt; others raise ValueError
IntTable == ("1" :> 1) @@ ("2" :> 2) @@ ("3" :> 3)
Tokens == {"1", "2", "3", "x"}

\* numbers.split(",") for the lines typed at the deactivation prompt
NumbersInputs ==
    {<<>>} \cup {<<t>> : t \in Tokens} \cup {<<t, u>> : t \in Tokens, u \in Tokens}

\* the for loop of do_deactivation over numbers[k..]
RECURSIVE DeactivateChosen(_, _, _, _)
DeactivateChosen(m, choice, numbers, k) ==
    IF k > Len(numbers)
    THEN m
    ELSE IF numbers[k] \notin DOMAIN IntTable
    THEN DeactivateChosen(m, choice, numbers, k + 1)
    ELSE IF IntTable[numbers[k]] \in 1..Len(choice)
    THEN DeactivateChosen(deactivate_name(m, choice[IntTable[numbers[k]]]),
                          choice, numbers, k + 1)
    ELSE DeactivateChosen(m, choice, numbers, k + 1)

InitMain ==
    /\ status = "running"
    /\ pc = "read_model"
    /\ model = NoModel
    /\ prev = NoModel
    /\ op = NoOp
    /\ proposed_name = None
    /\ answer = ""
    /\ i = 0
    /\ tmp_path = ""
    /\ stderr = ""
    /\ loaded = NoModel
    /\ \E target \in InitTargets :
          files = [f \in FileNames |-> IF f = Path THEN target ELSE NoFile]

\* exit(1) after the message printed to stderr
Exit1(message) ==
    /\ status' = "exit_1"
    /\ stderr' = message
    /\ UNCHANGED <<model, op, prev, pc, proposed_name, answer, i, tmp_path, files, loaded>>

\* read_model that goes on with the empty dict when the file is missing
ReadModel_Bootstrap ==
    /\ status = "running"
    /\ pc = "read_model"
    /\ IF os_path_exists(files, Path) /\ ~IsComplete(files[Path])
       THEN Exit1("Couldn't deserialize settings")
       ELSE LET json_obj == IF os_path_exists(files, Path)
                            THEN files[Path].doc
                            ELSE [dict |-> EmptyDict]
            IN IF ~from_json(json_obj).ok
               THEN Exit1("Couldn't create model")
               ELSE /\ model' = from_json(json_obj).model
                    /\ prev' = from_json(json_obj).model
                    /\ op' = [NoOp EXCEPT !.kind = "from_json"]
                    /\ loaded' = from_json(json_obj).model
                    /\ pc' = "do_deactivation"
                    /\ UNCHANGED <<status, proposed_name, answer, i, tmp_path,
                                   stderr, files>>

ReadModel ==
    /\ status = "running"
    /\ pc = "read_model"
    /\ IF ~os_path_exists(files, Path)
       THEN Exit1("Couldn't open settings")
       ELSE IF ~IsComplete(files[Path])
       THEN Exit1("Couldn't deserialize settings")
       ELSE IF ~from_json(files[Path].doc).ok
       THEN Exit1("Couldn't create model")
       ELSE /\ model' = from_json(files[Path].doc).model
            /\ prev' = from_json(files[Path].doc).model
            /\ op' = [NoOp EXCEPT !.kind = "from_json"]
            /\ loaded' = from_json(files[Path].doc).model
            /\ pc' = "do_deactivation"
            /\ UNCHANGED <<status, proposed_name, answer, i, tmp_path, stderr, files>>

\* one round of the while loop of do_deactivation
DoDeactivation ==
    /\ status = "running"
    /\ pc = "do_deactivation"
    /\ LET active_names == get_active_names(model)
           choice == sorted(active_names)
       IN \E numbers \in NumbersInputs :
            IF active_names = {} \/ Len(numbers) = 0
            THEN /\ pc' = "do_pick_or_reject"
                 /\ UNCHANGED <<model, op, prev, loaded>>
            ELSE /\ model' = DeactivateChosen(model, choice, numbers, 1)
                 /\ prev' = model
                 /\ op' = [NoOp EXCEPT !.kind = "do_deactivation"]
                 /\ pc' = "do_deactivation"
    /\ UNCHANGED <<status, proposed_name, answer, i, tmp_path, stderr, files, loaded>>

\* name = model.propose_name(); if name is None: return
DoPropose ==
    /\ status = "running"
    /\ pc = "do_pick_or_reject"
    /\ \E choice \in Choices(maximum_of(model)) :
          LET r == propose_name(model, choice) IN
          /\ WithinBounds(r.model)
          /\ model' = r.model
          /\ prev' = model
          /\ op' = [NoOp EXCEPT !.kind = "propose", !.choice = choice,
                                !.result = r.name]
          /\ proposed_name' = r.name
          /\ IF r.name = None
             THEN status' = "exit_0" /\ pc' = pc
             ELSE status' = status /\ pc' = "input"
    /\ UNCHANGED <<answer, i, tmp_path, stderr, files, loaded>>

\* do_pick_or_reject that saves after a pick only
DoAnswer_NoSaveOnReject ==
    /\ status = "running"
    /\ pc = "input"
    /\ \E a \in {"y", "n"} :
          /\ answer' = a
          /\ IF a = "y"
             THEN /\ model' = pick_name(model, proposed_name)
                  /\ op' = [NoOp EXCEPT !.kind = "pick", !.name = proposed_name]
                  /\ pc' = "wm_probe"
             ELSE /\ WithinBounds(reject_name(model, proposed_name))
                  /\ model' = reject_name(model, proposed_name)
                  /\ op' = [NoOp EXCEPT !.kind = "reject", !.name = proposed_name]
                  /\ pc' = "do_pick_or_reject"
    /\ prev' = model
    /\ i' = 0
    /\ UNCHANGED <<status, proposed_name, tmp_path, stderr, files, loaded>>

\* answer = input(..), pick_name or reject_name, and the entry of write_model
DoAnswer ==
    /\ status = "running"
    /\ pc = "input"
    /\ \E a \in {"y", "n"} :
          /\ answer' = a
          /\ IF a = "y"
             THEN /\ model' = pick_name(model, proposed_name)
                  /\ op' = [NoOp EXCEPT !.kind = "pick", !.name = proposed_name]
             ELSE /\ WithinBounds(reject_name(model, proposed_name))
                  /\ model' = reject_name(model, proposed_name)
                  /\ op' = [NoOp EXCEPT !.kind = "reject", !.name = proposed_name]
    /\ prev' = model
    /\ i' = 0
    /\ pc' = "wm_probe"
    /\ UNCHANGED <<status, proposed_name, tmp_path, stderr, files, loaded>>

\* one round of the while loop of write_model
WmProbe ==
    /\ status = "running"
    /\ pc = "wm_probe"
    /\ tmp_path' = TmpPath(Path, i)
    /\ IF ~os_path_exists(files, TmpPath(Path, i))
       THEN pc' = "wm_open"
       ELSE pc' = "wm_probe"
    /\ UNCHANGED <<model, op, prev, status, proposed_name, answer, i, stderr, files, loaded>>

\* write_model that opens the target itself for writing
WmOpen_Target ==
    /\ status = "running"
    /\ pc = "wm_open"
    /\ files' = open_w(files, Path, Model_to_json(model))
    /\ tmp_path' = Path
    /\ pc' = "wm_dump"
    /\ UNCHANGED <<model, op, prev, status, proposed_name, answer, i, stderr, loaded>>

\* with open(tmp_path, "w") as file
WmOpen ==
    /\ status = "running"
    /\ pc = "wm_open"
    /\ files' = open_w(files, tmp_path, Model_to_json(model))
    /\ pc' = "wm_dump"
    /\ UNCHANGED <<model, op, prev, status, proposed_name, answer, i, tmp_path, stderr, loaded>>

\* json.dump: one chunk, or the end of the with block after the last one
WmDump ==
    /\ status = "running"
    /\ pc = "wm_dump"
    /\ IF files[tmp_path].written < NumChunks(files[tmp_path].doc)
       THEN files' = write_chunk(files, tmp_path) /\ pc' = "wm_dump"
       ELSE files' = files /\ pc' = "wm_replace"
    /\ UNCHANGED <<model, op, prev, status, proposed_name, answer, i, tmp_path, stderr, loaded>>

\* os.replace(tmp_path, path), and the return into do_pick_or_reject
WmReplace ==
    /\ status = "running"
    /\ pc = "wm_replace"
    /\ files' = os_replace(files, tmp_path, Path)
    /\ IF answer = "y"
       THEN status' = "exit_0" /\ pc' = pc
       ELSE status' = status /\ pc' = "do_pick_or_reject"
    /\ UNCHANGED <<model, op, prev, proposed_name, answer, i, tmp_path, stderr, loaded>>

\* open, write or os.replace raises OSError, which nothing catches
WmOSError ==
    /\ status = "running"
    /\ pc \in {"wm_open", "wm_dump", "wm_replace"}
    /\ status' = "error"
    /\ stderr' = "OSError"
    /\ UNCHANGED <<model, op, prev, pc, proposed_name, answer, i, tmp_path, files, loaded>>

\* the process is interrupted from outside
Interrupt ==
    /\ status = "running"
    /\ status' = "killed"
    /\ UNCHANGED <<model, op, prev, pc, proposed_name, answer, i, tmp_path, stderr, files, loaded>>

\* the program is run again in the same directory
Rerun ==
    /\ status \in {"exit_0", "exit_1", "error", "killed"}
    /\ status' = "running"
    /\ pc' = "read_model"
    /\ model' = NoModel
    /\ prev' = NoModel
    /\ op' = NoOp
    /\ proposed_name' = None
    /\ answer' = ""
    /\ i' = 0
    /\ tmp_path' = ""
    /\ stderr' = ""
    /\ loaded' = NoModel
    /\ UNCHANGED files

write_model == WmProbe \/ WmOpen \/ WmDump \/ WmReplace

NextMain ==
    \/ ReadModel
    \/ DoDeactivation
    \/ DoPropose
    \/ DoAnswer
    \/ WmProbe
    \/ WmOpen
    \/ WmDump
    \/ WmReplace
    \/ WmOSError
    \/ Interrupt
    \/ Rerun

SpecMain == InitMain /\ [][NextMain]_vars

\* the process takes its next step unless it is stopped or waits for input
FairMain == SpecMain /\ WF_vars(write_model)

TypeOK == WithinBounds(model)

\* ------------------------------------------------------------ properties
\* the persons of m other than their counters: names in order, flags, factors
SameShape(m, n) ==
    /\ Len(m.persons) = Len(n.persons)
    /\ m.unproposed_factor = n.unproposed_factor
    /\ m.rejected_factor = n.rejected_factor
    /\ \A k \in 1..Len(m.persons) : m.persons[k].name = n.persons[k].name

Known(m, name) == IndexOf(m.persons, name) # 0
PersonOf(m, name) == m.persons[IndexOf(m.persons, name)]

\* C4: propose() adds exactly 1 to timesUnproposed of every active entity
\* other than the returned one (of all active ones when nothing is
\* returned) and changes nothing else: not the returned entity, not an
\* inactive one, no timesRejected, no active flag.
ProposeFrame ==
    op.kind = "propose" =>
        /\ SameShape(prev, model)
        /\ \A k \in 1..Len(prev.persons) :
              LET p == prev.persons[k]
                  q == model.persons[k]
              IN /\ q.active = p.active
                 /\ q.times_rejected = p.times_rejected
                 /\ q.times_unproposed =
                        IF p.active /\ p.name # op.result
                        THEN p.times_unproposed + 1
                        ELSE p.times_unproposed

\* a proposal returned one active entity and counted against another one
ProposeFrameWitness ==
    /\ op.kind = "propose"
    /\ op.result # None
    /\ \E k \in 1..Len(prev.persons) :
          /\ prev.persons[k].active
          /\ prev.persons[k].name # op.result
          /\ model.persons[k].times_unproposed
                = prev.persons[k].times_unproposed + 1

\* C5 as claimed: an inactive entity stays inactive after every Model
\* operation, add included; only deactivate makes an entity inactive; a
\* repeated deactivate changes nothing.
DeactivationIrreversible ==
    \A k \in 1..Len(prev.persons) :
        LET p == prev.persons[k] IN
        /\ ~p.active => p.name \notin get_active_names(model)
        /\ (p.active /\ p.name \notin get_active_names(model))
              => (op.kind = "deactivate" /\ op.name = p.name)
        /\ (op.kind = "deactivate" /\ op.name = p.name /\ ~p.active)
              => model = prev

\* C5 amended: an inactive entity stays inactive after deactivate, reject,
\* pick and propose, and after add of another name; add of its own name
\* replaces it by a new active entity; only deactivate makes an entity
\* inactive; a repeated deactivate changes nothing.
DeactivationIrreversibleButAdd ==
    \A k \in 1..Len(prev.persons) :
        LET p == prev.persons[k] IN
        /\ (~p.active /\ ~(op.kind = "add" /\ op.name = p.name))
              => p.name \notin get_active_names(model)
        /\ (~p.active /\ op.kind = "add" /\ op.name = p.name)
              => p.name \in get_active_names(model)
        /\ (p.active /\ p.name \notin get_active_names(model))
              => (op.kind = "deactivate" /\ op.name = p.name)
        /\ (op.kind = "deactivate" /\ op.name = p.name /\ ~p.active)
              => model = prev

\* deactivate was called on an entity that was inactive already
RepeatedDeactivateWitness ==
    /\ op.kind = "deactivate"
    /\ Known(prev, op.name)
    /\ ~PersonOf(prev, op.name).active
    /\ ~PersonOf(model, op.name).active

\* the interval selection of the specification: the active entity whose
\* half-open interval [offset, offset + weight) holds the draw
RECURSIVE CoveringName(_, _, _, _)
CoveringName(m, k, offset, draw) ==
    IF k > Len(m.persons)
    THEN None
    ELSE LET p == m.persons[k]
             w == One + p.times_unproposed * m.unproposed_factor
                      + p.times_rejected * m.rejected_factor
         IN IF ~p.active
            THEN CoveringName(m, k + 1, offset, draw)
            ELSE IF offset <= draw /\ draw < offset + w
            THEN p.name
            ELSE CoveringName(m, k + 1, offset + w, draw)

\* C6: for every draw in [0, total weight) get_random_name returns the
\* active entity whose interval [offset, offset + weight) covers the draw.
SelectionCoversDraw ==
    op.kind = "propose" => op.result = CoveringName(prev, 1, 0, op.choice)

\* C7: pick(name) leaves both counters of that entity at 0, changes no other
\* entity and no active flag, and changes nothing when name is unknown.
PickResets ==
    op.kind = "pick" =>
        /\ SameShape(prev, model)
        /\ \A k \in 1..Len(prev.persons) :
              LET p == prev.persons[k]
                  q == model.persons[k]
              IN IF p.name = op.name
                 THEN /\ q.times_unproposed = 0
                      /\ q.times_rejected = 0
                      /\ q.active = p.active
                 ELSE q = p

\* an entity with both counters above 0 was picked
PickResetsWitness ==
    /\ op.kind = "pick"
    /\ Known(prev, op.name)
    /\ PersonOf(prev, op.name).times_unproposed > 0
    /\ PersonOf(prev, op.name).times_rejected > 0
    /\ PersonOf(model, op.name).times_rejected = 0

\* C8: reject(name) adds exactly 1 to timesRejected of that entity, active
\* or not, leaves its timesUnproposed and every other entity unchanged, and
\* changes nothing when name is unknown.
RejectIncrements ==
    op.kind = "reject" =>
        /\ SameShape(prev, model)
        /\ \A k \in 1..Len(prev.persons) :
              LET p == prev.persons[k]
                  q == model.persons[k]
              IN IF p.name = op.name
                 THEN q = [p EXCEPT !.times_rejected = p.times_rejected + 1]
                 ELSE q = p

\* an inactive entity was rejected
RejectIncrementsWitness ==
    /\ op.kind = "reject"
    /\ Known(prev, op.name)
    /\ ~PersonOf(prev, op.name).active
    /\ PersonOf(model, op.name).times_rejected
          = PersonOf(prev, op.name).times_rejected + 1

\* C9: from_json(to_json(m)) has m's names in m's order with m's counters
\* and m's factors, and every entity of it is active.
RoundTrip ==
    LET r == from_json(Model_to_json(model)) IN
    /\ r.ok
    /\ SameShape(model, r.model)
    /\ \A k \in 1..Len(model.persons) :
          r.model.persons[k] = [model.persons[k] EXCEPT !.active = TRUE]

\* a Model with an active and an inactive entity, both with history
RoundTripWitness ==
    /\ \E k \in 1..Len(model.persons) :
          /\ ~model.persons[k].active
          /\ model.persons[k].times_unproposed > 0
    /\ \E k \in 1..Len(model.persons) :
          /\ model.persons[k].active
          /\ model.persons[k].times_rejected > 0
    /\ from_json(Model_to_json(model)).ok
    /\ Len(from_json(Model_to_json(model)).model.persons) = 2

\* C10: both counters of every entity are >= 0 in every reachable state.
CountersNonNegative ==
    \A k \in 1..Len(model.persons) :
        /\ model.persons[k].times_unproposed >= 0
        /\ model.persons[k].times_rejected >= 0

\* add was given negative counters and the entity holds 0
CountersNonNegativeWitness ==
    /\ op.kind = "add"
    /\ op.times_unproposed < 0
    /\ op.times_rejected < 0
    /\ PersonOf(model, op.name).times_unproposed = 0
    /\ PersonOf(model, op.name).times_rejected = 0

\* the positions inside write_model
WmPcs == {"wm_probe", "wm_open", "wm_dump", "wm_replace"}

\* C1: whatever step is taken, an interruption included, the file at the
\* target path is a whole document while write_model runs, and it changes
\* only from the previous document to the whole new document.
AtomicSave ==
    [][ /\ (pc' \in WmPcs => IsComplete(files'[Path]))
        /\ (files'[Path] # files[Path] =>
               /\ status = "running"
               /\ pc = "wm_replace"
               /\ files'[Path] = WholeFile(Model_to_json(model))) ]_vars

\* the process was interrupted while the temporary file was half written,
\* and the target still holds the previous document
AtomicSaveWitness ==
    /\ status = "killed"
    /\ pc = "wm_dump"
    /\ files[tmp_path].written > 0
    /\ files[tmp_path].written < NumChunks(files[tmp_path].doc)
    /\ IsComplete(files[Path])
    /\ files[Path].doc # Model_to_json(model)

\* C2: write_model always comes to an end: it replaces the target or fails
\* with an I/O error (or the process is stopped); the probe loop does not
\* run forever.
SaveTerminates ==
    (status = "running" /\ pc = "wm_probe")
        ~> (status # "running" \/ pc \notin WmPcs)

\* C3: write_model writes to the first name <path>_i that does not exist,
\* never into an existing file; when <path>_0 exists it goes on to <path>_1.
TempNameChoice ==
    /\ [](status = "running" /\ pc = "wm_open" =>
            /\ ~os_path_exists(files, tmp_path)
            /\ \E k \in {0, 1} :
                  /\ tmp_path = TmpPath(Path, k)
                  /\ \A j \in 0..(k - 1) : os_path_exists(files, TmpPath(Path, j)))
    /\ (/\ status = "running"
        /\ pc = "wm_probe"
        /\ os_path_exists(files, TmpPath(Path, 0))
        /\ ~os_path_exists(files, TmpPath(Path, 1)))
          ~> (\/ status # "running"
              \/ pc = "wm_open" /\ tmp_path = TmpPath(Path, 1))

\* C11: no proposal and no regular end of the session follows a pick or a
\* reject without a save in between, and from that save on the document at
\* the target path is the serialisation of the in-memory Model, the
\* increments of the last proposal included.
SaveAfterDecision ==
    /\ (status = "running" /\ pc = "do_pick_or_reject" /\ op.kind = "reject")
          => files[Path] = WholeFile(Model_to_json(model))
    /\ (status = "exit_0" /\ op.kind = "pick")
          => files[Path] = WholeFile(Model_to_json(model))
    /\ (status = "exit_0" /\ op.kind # "pick")
          => (op.kind = "propose" /\ op.result = None)
    /\ (status = "running" /\ pc = "input")
          => (op.kind = "propose" /\ op.result = proposed_name)

\* a rejection was saved and the next proposal is due: the document holds
\* the rejection and the increment of the entity that was not proposed
SaveAfterDecisionWitness ==
    /\ status = "running"
    /\ pc = "do_pick_or_reject"
    /\ op.kind = "reject"
    /\ files[Path] = WholeFile(Model_to_json(model))
    /\ \E k \in 1..Len(model.persons) :
          /\ model.persons[k].name # op.name
          /\ model.persons[k].times_unproposed
                > loaded.persons[k].times_unproposed
          /\ files[Path].doc.dict.persons.list[k].dict.timesUnproposed
                = model.persons[k].times_unproposed

\* C12: on a Model without active entities the sum of weights is 0, the
\* draw is 0, get_random_name returns None, and propose changes no counter.
NoActiveNoSelection ==
    (op.kind = "propose" /\ get_active_names(prev) = {}) =>
        /\ maximum_of(prev) = 0
        /\ op.choice = 0
        /\ get_random_name(prev, op.choice) = None
        /\ op.result = None
        /\ model = prev

\* propose was called when every entity of the Model was inactive
NoActiveNoSelectionWitness ==
    /\ op.kind = "propose"
    /\ Len(prev.persons) = 2
    /\ get_active_names(prev) = {}
    /\ op.result = None

\* the keys of Model._persons, and the names of the records of a document
NamesOf(m) == {m.persons[k].name : k \in 1..Len(m.persons)}
DocNames(doc) ==
    [k \in 1..Len(doc.dict.persons.list) |-> doc.dict.persons.list[k].dict.name]

\* C13: each operation leaves the set of names equal to the names before it
\* plus the name it added, so the set is the set of names ever added;
\* deactivate, reject, pick and propose leave the keys and their order
\* alone; every name, a deactivated one too, is in the serialised document.
NamesNeverShrink ==
    /\ NamesOf(model)
          = NamesOf(prev) \cup (IF op.kind = "add" THEN {op.name} ELSE {})
    /\ Cardinality(NamesOf(model)) = Len(model.persons)
    /\ op.kind \in {"deactivate", "reject", "pick", "propose"}
          => SameShape(prev, model)
    /\ DocNames(Model_to_json(model))
          = [k \in 1..Len(model.persons) |-> model.persons[k].name]

\* an entity was deactivated: it is no longer active, but still a key of
\* the Model and a record of the document
NamesNeverShrinkWitness ==
    /\ op.kind = "deactivate"
    /\ op.name \in get_active_names(prev)
    /\ op.name \notin get_active_names(model)
    /\ op.name \in NamesOf(model)
    /\ \E k \in 1..Len(model.persons) :
          DocNames(Model_to_json(model))[k] = op.name

\* the four malformations of a document: not an object, persons not a
\* sequence, a person-record that is not an object or has no name
IsMalformed(v) ==
    \/ ~IsDict(v)
    \/ /\ "persons" \in DOMAIN v.dict
       /\ \/ ~IsList(v.dict.persons)
          \/ \E k \in 1..Len(v.dict.persons.list) :
                \/ ~IsDict(v.dict.persons.list[k])
                \/ "name" \notin DOMAIN v.dict.persons.list[k].dict

\* C14: for a malformed document from_json fails and returns no Model;
\* the process never gets past read_model, ends with status 1 when it ends
\* by itself, and no file is ever written.
MalformedDocumentExits ==
    /\ []((IsComplete(files[Path]) /\ IsMalformed(files[Path].doc)) =>
            /\ ~from_json(files[Path].doc).ok
            /\ "model" \notin DOMAIN from_json(files[Path].doc)
            /\ pc = "read_model"
            /\ model = NoModel
            /\ loaded = NoModel
            /\ status \in {"running", "killed", "exit_1"}
            /\ (status = "exit_1" => stderr = "Couldn't create model"))
    /\ [][(IsComplete(files[Path]) /\ IsMalformed(files[Path].doc))
            => files' = files]_vars

\* the process ended with status 1 on a document whose first record is
\* good and whose second record has no name; no Model exists
MalformedDocumentExitsWitness ==
    /\ status = "exit_1"
    /\ stderr = "Couldn't create model"
    /\ IsDict(files[Path].doc)
    /\ "persons" \in DOMAIN files[Path].doc.dict
    /\ IsList(files[Path].doc.dict.persons)
    /\ Len(files[Path].doc.dict.persons.list) = 2
    /\ IsDict(files[Path].doc.dict.persons.list[2])
    /\ "name" \notin DOMAIN files[Path].doc.dict.persons.list[2].dict
    /\ model = NoModel

\* C15: a draw equal to the offset where the intervals of two adjacent
\* entities meet selects the later one, whose interval starts there.
BoundaryFavorsLater ==
    op.kind = "propose" =>
        LET weights == BuildWeights(prev, 1, 0, <<>>).weights IN
        \A k \in 2..Len(weights) :
            op.choice = weights[k].offset => op.result = weights[k].name

\* C16 as claimed: when the settings file is missing, read_model goes on
\* with an empty document: the session starts with a Model with the default
\* factors and no persons.
AbsentBootstraps ==
    [][(/\ status = "running"
        /\ pc = "read_model"
        /\ ~os_path_exists(files, Path)
        /\ status' # "killed")
          => (/\ status' = "running"
              /\ pc' = "do_deactivation"
              /\ model' = Model(DefaultUnproposedFactor, DefaultRejectedFactor))]_vars

\* C16 amended: when the settings file is missing, the process never gets
\* past read_model: it reports that it could not open the settings and
\* ends with status 1, without a Model and without creating any file.
AbsentExits ==
    ~os_path_exists(files, Path) =>
        /\ pc = "read_model"
        /\ model = NoModel
        /\ loaded = NoModel
        /\ status \in {"running", "killed", "exit_1"}
        /\ (status = "exit_1" => stderr = "Couldn't open settings")
        /\ \A f \in FileNames : ~os_path_exists(files, f)

\* the process ended with status 1 because the settings file is missing
AbsentExitsWitness ==
    /\ status = "exit_1"
    /\ pc = "read_model"
    /\ stderr = "Couldn't open settings"
    /\ ~os_path_exists(files, Path)
    /\ model = NoModel

\* the weight get_random_name gives an active entity: the length of its
\* interval in the list of offsets the first loop builds
WeightIn(m, name) ==
    LET b == BuildWeights(m, 1, 0, <<>>)
        k == CHOOSE j \in 1..Len(b.weights) : b.weights[j].name = name
    IN (IF k < Len(b.weights) THEN b.weights[k + 1].offset ELSE b.maximum)
         - b.weights[k].offset

\* every active weight is at least 1.0, and of two active entities with the
\* same timesRejected the one with more timesUnproposed weighs more when
\* unproposedFactor > 0
WeightsOrdered ==
    /\ \A n \in get_active_names(model) : WeightIn(model, n) >= One
    /\ \A n1 \in get_active_names(model), n2 \in get_active_names(model) :
          (/\ model.unproposed_factor > 0
           /\ PersonOf(model, n1).times_rejected = PersonOf(model, n2).times_rejected
           /\ PersonOf(model, n1).times_unproposed > PersonOf(model, n2).times_unproposed)
            => WeightIn(model, n1) > WeightIn(model, n2)

\* C17 as claimed: WeightsOrdered, and every propose() strictly increases
\* the weight of each active entity it did not return.
WeightMonotone ==
    /\ WeightsOrdered
    /\ op.kind = "propose" =>
          \A n \in get_active_names(prev) \ {op.result} :
              WeightIn(model, n) > WeightIn(prev, n)

\* C17 amended: WeightsOrdered, and every propose() strictly increases the
\* weight of each active entity it did not return when unproposedFactor > 0
\* and leaves it unchanged when unproposedFactor is 0.
WeightMonotonePositiveFactor ==
    /\ WeightsOrdered
    /\ op.kind = "propose" =>
          \A n \in get_active_names(prev) \ {op.result} :
              IF model.unproposed_factor > 0
              THEN WeightIn(model, n) > WeightIn(prev, n)
              ELSE WeightIn(model, n) = WeightIn(prev, n)

\* with a positive factor, a proposal made the entity it passed over
\* heavier than the returned one, which has the same timesRejected
WeightMonotoneWitness ==
    /\ op.kind = "propose"
    /\ model.unproposed_factor > 0
    /\ op.result # None
    /\ \E n \in get_active_names(prev) \ {op.result} :
          /\ WeightIn(prev, n) = WeightIn(prev, op.result)
          /\ PersonOf(model, n).times_rejected
                = PersonOf(model, op.result).times_rejected
          /\ WeightIn(model, n) > WeightIn(model, op.result)

\* C18: propose returns nothing only when no entity is active: with an
\* active entity every draw selects a name, and the session ends without a
\* pick only when no active entity is left.
NothingOnlyWhenNoneActive ==
    /\ (op.kind = "propose" /\ get_active_names(prev) # {})
          => op.result # None
    /\ (status = "exit_0" /\ op.kind = "propose")
          => get_active_names(model) = {}

\* C19: a name returned by propose is the name of an entity that is in the
\* Model and active when propose is called; a deactivated name is never
\* the proposed one.
ProposedIsActive ==
    /\ (op.kind = "propose" /\ op.result # None)
          => /\ Known(prev, op.result)
             /\ op.result \in get_active_names(prev)
    /\ proposed_name # None
          => /\ Known(model, proposed_name)
             /\ proposed_name \in get_active_names(model)

\* after a deactivation in do_deactivation, the other entity was proposed
ProposedIsActiveWitness ==
    /\ status = "running"
    /\ pc = "input"
    /\ op.kind = "propose"
    /\ proposed_name = op.result
    /\ proposed_name \in get_active_names(prev)
    /\ \E k \in 1..Len(prev.persons) : ~prev.persons[k].active

\* document doc has a record for person p of the loaded Model, with the
\* counters p was loaded with
KeepsRecordOf(doc, p) ==
    \E j \in 1..Len(doc.dict.persons.list) :
        doc.dict.persons.list[j]
          = [dict |-> [name |-> p.name,
                       timesUnproposed |-> p.times_unproposed,
                       timesRejected |-> p.times_rejected]]

\* C20: an entity deactivated in a session keeps the counters it was loaded
\* with, and every document a save of that session puts at the target path
\* has its record with these counters.
HistorySurvives ==
    /\ [](\A k \in 1..Len(model.persons) :
            ~model.persons[k].active =>
                /\ loaded.persons[k].name = model.persons[k].name
                /\ loaded.persons[k].times_unproposed
                      = model.persons[k].times_unproposed
                /\ loaded.persons[k].times_rejected
                      = model.persons[k].times_rejected)
    /\ [][(/\ status = "running"
            /\ pc = "wm_replace"
            /\ status' \in {"running", "exit_0"})
              => \A k \in 1..Len(model.persons) :
                    ~model.persons[k].active
                        => KeepsRecordOf(files'[Path].doc, loaded.persons[k])]_vars

\* a rejection was saved in a session that had deactivated an entity with
\* history: the saved document has the entity with that history
HistorySurvivesWitness ==
    /\ status = "running"
    /\ pc = "do_pick_or_reject"
    /\ op.kind = "reject"
    /\ files[Path] = WholeFile(Model_to_json(model))
    /\ \E k \in 1..Len(model.persons) :
          /\ ~model.persons[k].active
          /\ loaded.persons[k].times_rejected > 0
          /\ KeepsRecordOf(files[Path].doc, loaded.persons[k])
====
